---- MODULE Spec2Model ----
(***************************************************************************)
(* Model of the content-record editors of cms-psinv: the article editor    *)
(* (src/app/dashboard/articles/[articleId]/page.tsx), the blog editor      *)
(* (src/app/dashboard/blog/[slug]/page.tsx) and the list pages' delete.    *)
(* Strings are sequences of one-character strings, so that slugify is      *)
(* computed character by character as the code's regular expressions do.   *)
(***************************************************************************)
EXTENDS Integers, Sequences, FiniteSets, TLC

VARIABLES
    articles,    \* the "articles" collection: document id -> stored document
    clock,       \* the server's clock, read by serverTimestamp()
    pc,          \* per editor session: where the component / handleSave is
    articleId,   \* per session: the route parameter
    formData,    \* per session: the formData state
    activeTab,   \* per session: the activeTab state
    saving,      \* per session: the saving state
    calls,       \* per session: repository calls issued by the current save
    notice,      \* per session: the last alert shown
    touched,     \* per session: the form fields the operator edited since opening
    customSlug,  \* per session: the custom slug the operator typed and has not
                 \* retyped since (EMPTY when there is none)
    loadFailed,  \* per session: fetchArticle's read was rejected in this session
    uploading,   \* per session: the uploading state
    uploadBatch, \* per session: the files of the gallery upload in flight
    blogPosts,   \* the "blog_posts" collection
    bpc,         \* blog editor: where the component / handleSave is
    slugParam,   \* blog editor: the route parameter
    bformData,   \* blog editor: the formData state
    bsaving,     \* blog editor: the saving state
    bcalls,      \* blog editor: repository calls issued by the current save
    bnotice,     \* blog editor: the last alert shown
    lpc,         \* article list page: where the component / handleDelete is
    listArticles,\* article list page: the articles state (the fetched rows)
    loading,     \* article list page: the loading state
    searchQuery, \* article list page: the searchQuery state
    sortConfig,  \* article list page: the sortConfig state
    currentPage, \* article list page: the currentPage state
    deleteTarget,\* article list page: the id handleDelete was called with
    lnotice      \* article list page: the last alert shown

gvars == <<loadFailed, uploading, uploadBatch>>
avars == <<articles, clock, pc, articleId, formData, activeTab, saving, calls, notice,
          touched, customSlug, loadFailed, uploading, uploadBatch>>
bvars == <<blogPosts, bpc, slugParam, bformData, bsaving, bcalls, bnotice>>
lvars == <<lpc, listArticles, loading, searchQuery, sortConfig, currentPage, deleteTarget,
          lnotice>>
vars == <<articles, clock, pc, articleId, formData, activeTab, saving, calls, notice,
          touched, customSlug, loadFailed, uploading, uploadBatch, blogPosts, bpc,
          slugParam, bformData, bsaving, bcalls, bnotice, lpc, listArticles, loading, searchQuery, sortConfig, currentPage,
          deleteTarget, lnotice>>

----------------------------------------------------------------------------
(* Bounds and input sets *)

\* The server clock takes the values 1..MaxClock.
MaxClock == 2

\* The concurrent editor sessions (browser tabs) of the article editor.
Sessions == {"s1", "s2"}

\* The session of the single-editor specification.
Solo == "s1"

EMPTY == <<>>
\* The route parameter of the "create" page (articleId === "new").
NewRoute == <<"n", "e", "w">>

\* What the operator types into the slug input and into the title input.
TypedSlugs == {EMPTY, <<"a">>, <<"B">>}
TypedTitles == {EMPTY, <<"A">>}

\* The language tabs the operator switches between.
Tabs == {"en", "ar"}

\* The texts of the slugify specification: every string of up to MaxLen
\* characters out of a lower-case letter, an upper-case letter, a blank, a
\* hyphen and a character that is neither a word character nor a hyphen.
MaxLen == 3
TextChars == {"a", "B", " ", "-", "!"}
Texts == UNION {[1..n -> TextChars] : n \in 0..MaxLen}

\* What the operator types in the specification of the auto-slug rule.
EditTexts == {EMPTY, <<"A">>, <<"B">>, <<"a", " ", "B">>}

\* The list page's inputs: the search queries and the sortable column headers.
Queries == {EMPTY, <<"a">>, <<"B">>, <<"a", "b">>}
SortKeys == {"title", "category", "status"}

\* The stored collections the list page is checked on hold up to MaxRecords
\* records of any shape, or up to MaxListed records to page through.
MaxRecords == 2
MaxListed == 23

\* The gallery holds at most MaxGallery images, chosen in batches of at most
\* MaxBatch of the files of Files.
MaxGallery == 4
MaxBatch == 2
Files == {"a", "b"}
Batches == UNION {[1..n -> Files] : n \in 1..MaxBatch}

\* serverTimestamp() / a field the document does not have
NoTime == 0
Absent == "absent"

----------------------------------------------------------------------------
(* slugify *)

LowerOf(c) ==
    CASE c = "A" -> "a"
      [] c = "B" -> "b"
      [] c = "N" -> "n"
      [] OTHER -> c

Whitespace == {" "}
WordChars == {"a", "b", "n", "e", "w", "A", "B", "N", "0", "1", "_"}

toLowerCase(text) == [i \in 1..Len(text) |-> LowerOf(text[i])]

RECURSIVE trimStart(_)
trimStart(text) ==
    IF text # <<>> /\ Head(text) \in Whitespace THEN trimStart(Tail(text)) ELSE text

RECURSIVE trimEnd(_)
trimEnd(text) ==
    IF text # <<>> /\ text[Len(text)] \in Whitespace
    THEN trimEnd(SubSeq(text, 1, Len(text) - 1))
    ELSE text

trim(text) == trimEnd(trimStart(text))

\* .replace(/\s+/g, '-'): every maximal run of whitespace becomes one hyphen
RECURSIVE replaceSpaces(_)
replaceSpaces(text) ==
    IF text = <<>> THEN <<>>
    ELSE IF Head(text) \in Whitespace
         THEN <<"-">> \o replaceSpaces(trimStart(text))
         ELSE <<Head(text)>> \o replaceSpaces(Tail(text))

\* .replace(/[^\w\-]+/g, ''): keep word characters and hyphens only
removeNonWord(text) == SelectSeq(text, LAMBDA c : c \in WordChars \/ c = "-")

RECURSIVE dropHyphens(_)
dropHyphens(text) ==
    IF text # <<>> /\ Head(text) = "-" THEN dropHyphens(Tail(text)) ELSE text

\* .replace(/\-\-+/g, '-'): every run of two or more hyphens becomes one hyphen
RECURSIVE collapseHyphens(_)
collapseHyphens(text) ==
    IF text = <<>> THEN <<>>
    ELSE IF Head(text) = "-"
         THEN <<"-">> \o collapseHyphens(dropHyphens(text))
         ELSE <<Head(text)>> \o collapseHyphens(Tail(text))

\* Mutant: the hyphen runs are collapsed before the other characters are removed.
slugifyCollapseFirst(text) ==
    removeNonWord(collapseHyphens(replaceSpaces(trim(toLowerCase(text)))))

slugify(text) == collapseHyphens(removeNonWord(replaceSpaces(trim(toLowerCase(text)))))

----------------------------------------------------------------------------
(* The article editor's data *)

LANGUAGES == {"en", "ar", "zh", "ru", "nl"}

EmptyTranslation == [title |-> EMPTY, h2 |-> EMPTY, h3 |-> EMPTY, content |-> EMPTY]

\* The initial formData state. status, createdAt and updatedAt are not form
\* fields: they enter formData only through fetchArticle's spread of the
\* stored document, and are Absent / NoTime until then.
InitialFormData ==
    [slug |-> EMPTY,
     gallery |-> <<>>,
     translations |-> [l \in LANGUAGES |-> EmptyTranslation],
     status |-> Absent,
     createdAt |-> NoTime,
     updatedAt |-> NoTime]

isNew(s) == articleId[s] = NewRoute

\* The document ids the operator can produce or ask for.
Keys == {slugify(t) : t \in TypedSlugs \cup TypedTitles} \ {EMPTY}

----------------------------------------------------------------------------
(* The repository (Firestore) operations on a collection *)

exists(coll, key) == key \in DOMAIN coll

\* setDoc(ref, data): the document at key is replaced by data
setDoc(coll, key, data) ==
    [k \in DOMAIN coll \cup {key} |-> IF k = key THEN data ELSE coll[k]]

\* What a merge write leaves at a document: every field data has takes data's
\* value, every field data lacks keeps the stored value. The translations map
\* is merged key by key (a translation of the form always has its four fields).
mergeFields(old, data) ==
    [slug |-> data.slug,
     gallery |-> data.gallery,
     translations |->
        [l \in DOMAIN old.translations \cup DOMAIN data.translations |->
            IF l \in DOMAIN data.translations
            THEN data.translations[l] ELSE old.translations[l]],
     status |-> IF data.status # Absent THEN data.status ELSE old.status,
     createdAt |-> IF data.createdAt # NoTime THEN data.createdAt ELSE old.createdAt,
     updatedAt |-> IF data.updatedAt # NoTime THEN data.updatedAt ELSE old.updatedAt]

\* setDoc(ref, data, { merge: true })
setDocMerge(coll, key, data) ==
    IF exists(coll, key) THEN setDoc(coll, key, mergeFields(coll[key], data))
    ELSE setDoc(coll, key, data)

\* deleteDoc(ref)
deleteDoc(coll, key) == [k \in DOMAIN coll \ {key} |-> coll[k]]

\* serverTimestamp()
serverTimestamp == clock

----------------------------------------------------------------------------
(* fetchArticle *)

\* Mutant: the stored translations are not taken into the form.
loadedFormDataNoTranslations(prev, data) ==
    [slug |-> data.slug,
     gallery |-> data.gallery,
     translations |-> prev.translations,
     status |-> IF data.status # Absent THEN data.status ELSE prev.status,
     createdAt |-> IF data.createdAt # NoTime THEN data.createdAt ELSE prev.createdAt,
     updatedAt |-> IF data.updatedAt # NoTime THEN data.updatedAt ELSE prev.updatedAt]

\* setFormData(prev => ({ ...prev, ...data, translations: { ...prev.translations,
\* ...data.translations } })): the stored fields override the form's, locale by
\* locale for the translations.
loadedFormData(prev, data) ==
    [slug |-> data.slug,
     gallery |-> data.gallery,
     translations |->
        [l \in LANGUAGES |->
            IF l \in DOMAIN data.translations
            THEN data.translations[l] ELSE prev.translations[l]],
     status |-> IF data.status # Absent THEN data.status ELSE prev.status,
     createdAt |-> IF data.createdAt # NoTime THEN data.createdAt ELSE prev.createdAt,
     updatedAt |-> IF data.updatedAt # NoTime THEN data.updatedAt ELSE prev.updatedAt]

\* The operator opens the editor: /dashboard/articles/new or /dashboard/articles/<id>.
Open(s, id) ==
    /\ pc[s] \in {"closed", "done"}
    /\ articleId' = [articleId EXCEPT ![s] = id]
    /\ formData' = [formData EXCEPT ![s] = InitialFormData]
    /\ activeTab' = [activeTab EXCEPT ![s] = "en"]
    /\ saving' = [saving EXCEPT ![s] = FALSE]
    /\ calls' = [calls EXCEPT ![s] = <<>>]
    /\ notice' = [notice EXCEPT ![s] = "none"]
    /\ pc' = [pc EXCEPT ![s] = IF id = NewRoute THEN "editing" ELSE "loading"]
    /\ UNCHANGED <<articles, clock>>
    /\ UNCHANGED bvars
    /\ UNCHANGED lvars
    /\ touched' = [touched EXCEPT ![s] = {}]
    /\ customSlug' = [customSlug EXCEPT ![s] = EMPTY]
    /\ loadFailed' = [loadFailed EXCEPT ![s] = FALSE]
    /\ uploading' = [uploading EXCEPT ![s] = FALSE]
    /\ uploadBatch' = [uploadBatch EXCEPT ![s] = <<>>]

\* getDoc resolves: the document is loaded into the form, or it does not exist
\* and the editor alerts and navigates back to the list.
FetchArticle(s) ==
    /\ pc[s] = "loading"
    /\ IF exists(articles, articleId[s])
       THEN /\ formData' = [formData EXCEPT
                                ![s] = loadedFormData(@, articles[articleId[s]])]
            /\ pc' = [pc EXCEPT ![s] = "editing"]
            /\ UNCHANGED notice
       ELSE /\ notice' = [notice EXCEPT ![s] = "Article not found"]
            /\ pc' = [pc EXCEPT ![s] = "closed"]
            /\ UNCHANGED formData
    /\ UNCHANGED <<articles, clock, articleId, activeTab, saving, calls>>
    /\ UNCHANGED bvars
    /\ UNCHANGED gvars
    /\ UNCHANGED lvars
    /\ UNCHANGED <<touched, customSlug>>

\* getDoc rejects: the error is logged, loading ends and the editor is shown
\* with the initial form.
FetchArticleFails(s) ==
    /\ pc[s] = "loading"
    /\ pc' = [pc EXCEPT ![s] = "editing"]
    /\ UNCHANGED <<articles, clock, articleId, formData, activeTab, saving, calls, notice>>
    /\ UNCHANGED bvars
    /\ UNCHANGED lvars
    /\ UNCHANGED <<touched, customSlug>>
    /\ loadFailed' = [loadFailed EXCEPT ![s] = TRUE]
    /\ UNCHANGED <<uploading, uploadBatch>>

----------------------------------------------------------------------------
(* Editing *)
\* handleSave works on the formData it captured when Save was pressed; the
\* operator's edits are taken between saves (pc = "editing").

\* The custom slug in force after the operator typed slug into the slug input:
\* slug itself when it is not empty and is not what the title gives, else none.
customTyped(prev, slug) ==
    IF slug # EMPTY /\ slug # slugify(prev.translations["en"].title) THEN slug ELSE EMPTY

\* The slug input's onChange.
SlugInput(s, text) ==
    /\ pc[s] = "editing"
    /\ formData' = [formData EXCEPT ![s].slug = slugify(text)]
    /\ UNCHANGED <<articles, clock, pc, articleId, activeTab, saving, calls, notice>>
    /\ UNCHANGED bvars
    /\ UNCHANGED gvars
    /\ UNCHANGED lvars
    /\ touched' = [touched EXCEPT ![s] = @ \cup {"slug"}]
    /\ customSlug' = [customSlug EXCEPT ![s] = customTyped(formData[s], slugify(text))]

\* Mutant: the slug is compared with the slug of the title after the edit.
translationChangedAfter(prev, tab, field, value) ==
    LET newState == [prev EXCEPT !.translations[tab][field] = value]
    IN  IF tab = "en" /\ field = "title"
           /\ (prev.slug = slugify(value) \/ prev.slug = EMPTY)
        THEN [newState EXCEPT !.slug = slugify(value)]
        ELSE newState

\* The form state after handleTranslationChange(field, value) on tab.
translationChanged(prev, tab, field, value) ==
    LET newState == [prev EXCEPT !.translations[tab][field] = value]
        currentSlugified == slugify(prev.translations["en"].title)
        newSlug == slugify(value)
    IN  IF tab = "en" /\ field = "title"
           /\ (prev.slug = currentSlugified \/ prev.slug = EMPTY)
        THEN [newState EXCEPT !.slug = newSlug]
        ELSE newState

HandleTranslationChange(s, field, value) ==
    /\ pc[s] = "editing"
    /\ formData' = [formData EXCEPT
                        ![s] = translationChanged(@, activeTab[s], field, value)]
    /\ UNCHANGED <<articles, clock, pc, articleId, activeTab, saving, calls, notice>>
    /\ UNCHANGED bvars
    /\ UNCHANGED gvars
    /\ UNCHANGED lvars
    /\ touched' = [touched EXCEPT ![s] = @ \cup {"translations"} \cup
                          (IF formData'[s].slug # formData[s].slug THEN {"slug"} ELSE {})]
    /\ UNCHANGED customSlug

SetActiveTab(s, lang) ==
    /\ pc[s] = "editing"
    /\ activeTab' = [activeTab EXCEPT ![s] = lang]
    /\ UNCHANGED <<articles, clock, pc, articleId, formData, saving, calls, notice>>
    /\ UNCHANGED bvars
    /\ UNCHANGED gvars
    /\ UNCHANGED lvars
    /\ UNCHANGED <<touched, customSlug>>

\* The Cancel button: router.back(); the component and its state are gone.
Cancel(s) ==
    /\ pc[s] = "editing"
    /\ pc' = [pc EXCEPT ![s] = "closed"]
    /\ formData' = [formData EXCEPT ![s] = InitialFormData]
    /\ activeTab' = [activeTab EXCEPT ![s] = "en"]
    /\ calls' = [calls EXCEPT ![s] = <<>>]
    /\ notice' = [notice EXCEPT ![s] = "none"]
    /\ touched' = [touched EXCEPT ![s] = {}]
    /\ customSlug' = [customSlug EXCEPT ![s] = EMPTY]
    /\ loadFailed' = [loadFailed EXCEPT ![s] = FALSE]
    /\ uploading' = [uploading EXCEPT ![s] = FALSE]
    /\ uploadBatch' = [uploadBatch EXCEPT ![s] = <<>>]
    /\ UNCHANGED <<articles, clock, articleId, saving>>
    /\ UNCHANGED bvars
    /\ UNCHANGED lvars

----------------------------------------------------------------------------
(* The image gallery *)

\* The download URL of an uploaded file (stored under articles/gallery/).
downloadURL(file) == <<"articles/gallery", file>>

\* await Promise.all(files.map(upload)): the URLs in the order of the files.
downloadURLs(files) == [i \in 1..Len(files) |-> downloadURL(files[i])]

\* Mutant: the new URLs are put in front of the gallery.
appendedInFront(gallery, urls) == urls \o gallery

\* [...(prev.gallery || []), ...downloadURLs]
appended(gallery, urls) == gallery \o urls

\* The file input's onChange (the input is disabled while uploading; nothing
\* happens when no file was chosen): handleGalleryUpload up to its await.
HandleGalleryUpload(s, files) ==
    /\ pc[s] = "editing"
    /\ ~uploading[s]
    /\ files # <<>>
    /\ Len(formData[s].gallery) + Len(files) <= MaxGallery
    /\ uploading' = [uploading EXCEPT ![s] = TRUE]
    /\ uploadBatch' = [uploadBatch EXCEPT ![s] = files]
    /\ UNCHANGED <<articles, clock, pc, articleId, formData, activeTab, saving, calls,
                   notice, touched, customSlug, loadFailed>>
    /\ UNCHANGED bvars
    /\ UNCHANGED lvars

\* Every upload of the batch resolved: the URLs are appended to the gallery.
GalleryUploadReturns(s) ==
    /\ pc[s] = "editing"
    /\ uploading[s]
    /\ formData' = [formData EXCEPT
                        ![s].gallery = appended(@, downloadURLs(uploadBatch[s]))]
    /\ touched' = [touched EXCEPT ![s] = @ \cup {"gallery"}]
    /\ uploading' = [uploading EXCEPT ![s] = FALSE]
    /\ uploadBatch' = [uploadBatch EXCEPT ![s] = <<>>]
    /\ UNCHANGED <<articles, clock, pc, articleId, activeTab, saving, calls, notice,
                   customSlug, loadFailed>>
    /\ UNCHANGED bvars
    /\ UNCHANGED lvars

\* An upload of the batch was rejected: Promise.all rejects, the catch block
\* alerts, and what the other uploads return is dropped.
GalleryUploadFails(s) ==
    /\ pc[s] = "editing"
    /\ uploading[s]
    /\ notice' = [notice EXCEPT ![s] = "Failed to upload images."]
    /\ uploading' = [uploading EXCEPT ![s] = FALSE]
    /\ uploadBatch' = [uploadBatch EXCEPT ![s] = <<>>]
    /\ UNCHANGED <<articles, clock, pc, articleId, formData, activeTab, saving, calls,
                   touched, customSlug, loadFailed>>
    /\ UNCHANGED bvars
    /\ UNCHANGED lvars

\* gallery.filter((_, index) => index !== indexToRemove), from index on
RECURSIVE filterOtherIndices(_, _, _)
filterOtherIndices(gallery, index, indexToRemove) ==
    IF gallery = <<>> THEN <<>>
    ELSE (IF index # indexToRemove THEN <<Head(gallery)>> ELSE <<>>)
         \o filterOtherIndices(Tail(gallery), index + 1, indexToRemove)

\* Mutant: every entry equal to the one at the index is removed.
removeGalleryImageByUrl(gallery, indexToRemove) ==
    IF indexToRemove \in 0..(Len(gallery) - 1)
    THEN SelectSeq(gallery, LAMBDA url : url # gallery[indexToRemove + 1])
    ELSE gallery

\* The gallery that removeGalleryImage(indexToRemove) sets (indices from 0).
removeGalleryImage(gallery, indexToRemove) ==
    filterOtherIndices(gallery, 0, indexToRemove)

\* The remove button of the gallery entry at index.
RemoveGalleryImage(s, index) ==
    /\ pc[s] = "editing"
    /\ index \in 0..(Len(formData[s].gallery) - 1)
    /\ formData' = [formData EXCEPT ![s].gallery = removeGalleryImage(@, index)]
    /\ touched' = [touched EXCEPT ![s] = @ \cup {"gallery"}]
    /\ UNCHANGED <<articles, clock, pc, articleId, activeTab, saving, calls, notice,
                   customSlug, loadFailed, uploading, uploadBatch>>
    /\ UNCHANGED bvars
    /\ UNCHANGED lvars

----------------------------------------------------------------------------
(* checkSlugUnique and handleSave *)

\* Mutant: every visited document overwrites the verdict (the last one wins).
RECURSIVE forEachLastWins(_, _, _)
forEachLastWins(ids, self, isUnique) ==
    IF ids = {} THEN isUnique
    ELSE LET id == CHOOSE x \in ids : TRUE
         IN  forEachLastWins(ids \ {id}, self, id = self)

\* querySnapshot.forEach((doc) => { if (doc.id !== articleId) isUnique = false })
RECURSIVE forEachUnique(_, _, _)
forEachUnique(ids, self, isUnique) ==
    IF ids = {} THEN isUnique
    ELSE LET id == CHOOSE x \in ids : TRUE
         IN  forEachUnique(ids \ {id}, self, IF id # self THEN FALSE ELSE isUnique)

\* Mutant: the uniqueness check always passes.
checkSlugUniqueSkipped(coll, slug, self) == TRUE

\* The value checkSlugUnique(slug) resolves to in the editor of route parameter self.
checkSlugUnique(coll, slug, self) ==
    LET querySnapshot == {k \in DOMAIN coll : coll[k].slug = slug}
    IN  IF querySnapshot = {} THEN TRUE
        ELSE forEachUnique(querySnapshot, self, TRUE)

\* The form's constraint validation (the slug input is required, the title input
\* is required while the English tab is shown): the browser raises no submit
\* event while it fails.
requiredFilled(s) ==
    /\ formData[s].slug # EMPTY
    /\ activeTab[s] = "en" => formData[s].translations["en"].title # EMPTY

\* Mutant: only the fields the form edits are written, status and createdAt
\* are left out.
articleDataFormOnly(form) ==
    [form EXCEPT !.updatedAt = serverTimestamp, !.status = Absent, !.createdAt = NoTime]

\* const articleData = { ...formData, updatedAt: serverTimestamp() }
articleData(form) == [form EXCEPT !.updatedAt = serverTimestamp]

\* Mutant: a new article is written without its status.
newArticleDataNoStatus(form) ==
    [form EXCEPT !.updatedAt = serverTimestamp, !.createdAt = serverTimestamp]

\* { ...articleData, createdAt: serverTimestamp(), status: "published" }
newArticleData(form) ==
    [articleData(form) EXCEPT !.createdAt = serverTimestamp, !.status = "published"]

\* Mutant: a changed slug is never noticed, every existing record is merge-written.
slugChangedNever(s) == FALSE

\* if (articleId !== formData.slug): the slug changed
slugChanged(s) == articleId[s] # formData[s].slug

\* Mutant: the saving flag is not reset after a failure.
saveFailedStillSaving(s) ==
    /\ notice' = [notice EXCEPT ![s] = "Failed to save article"]
    /\ UNCHANGED saving
    /\ pc' = [pc EXCEPT ![s] = "editing"]

\* The catch and finally blocks of handleSave.
saveFailed(s) ==
    /\ notice' = [notice EXCEPT ![s] = "Failed to save article"]
    /\ saving' = [saving EXCEPT ![s] = FALSE]
    /\ pc' = [pc EXCEPT ![s] = "editing"]

\* The Save button (disabled while saving or uploading): handleSave up to its
\* first await.
HandleSave(s) ==
    /\ pc[s] = "editing"
    /\ ~saving[s]
    /\ ~uploading[s]
    /\ IF ~requiredFilled(s)
       THEN /\ notice' = [notice EXCEPT ![s] = "Please fill out this field"]
            /\ calls' = [calls EXCEPT ![s] = <<>>]
            /\ UNCHANGED <<pc, saving>>
       ELSE IF formData[s].slug = EMPTY
       THEN /\ notice' = [notice EXCEPT ![s] = "Slug is required"]
            /\ calls' = [calls EXCEPT ![s] = <<>>]
            /\ UNCHANGED <<pc, saving>>
       ELSE /\ saving' = [saving EXCEPT ![s] = TRUE]
            /\ notice' = [notice EXCEPT ![s] = "none"]
            /\ calls' = [calls EXCEPT ![s] = <<"query">>]
            /\ pc' = [pc EXCEPT ![s] = "query"]
    /\ UNCHANGED <<articles, clock, articleId, formData, activeTab>>
    /\ UNCHANGED bvars
    /\ UNCHANGED gvars
    /\ UNCHANGED lvars
    /\ UNCHANGED <<touched, customSlug>>

\* getDocs resolves: the slug is taken (alert, the save ends), or the write of
\* the document is issued.
CheckSlugUniqueReturns(s) ==
    /\ pc[s] = "query"
    /\ IF ~checkSlugUnique(articles, formData[s].slug, articleId[s])
       THEN /\ notice' = [notice EXCEPT ![s] = "This slug is already taken"]
            /\ saving' = [saving EXCEPT ![s] = FALSE]
            /\ pc' = [pc EXCEPT ![s] = "editing"]
            /\ UNCHANGED calls
       ELSE /\ calls' = [calls EXCEPT ![s] = Append(@, "set")]
            /\ pc' = [pc EXCEPT ![s] = "set"]
            /\ UNCHANGED <<notice, saving>>
    /\ UNCHANGED <<articles, clock, articleId, formData, activeTab>>
    /\ UNCHANGED bvars
    /\ UNCHANGED gvars
    /\ UNCHANGED lvars
    /\ UNCHANGED <<touched, customSlug>>

\* getDocs rejects.
CheckSlugUniqueFails(s) ==
    /\ pc[s] = "query"
    /\ saveFailed(s)
    /\ UNCHANGED <<articles, clock, articleId, formData, activeTab, calls>>
    /\ UNCHANGED bvars
    /\ UNCHANGED gvars
    /\ UNCHANGED lvars
    /\ UNCHANGED <<touched, customSlug>>

\* Mutant: a rename deletes the old document first.
writtenDeleteFirst(s) ==
    IF articleId[s] = NewRoute
    THEN setDoc(articles, formData[s].slug,
                [formData[s] EXCEPT !.updatedAt = clock, !.createdAt = clock,
                                    !.status = "published"])
    ELSE IF articleId[s] # formData[s].slug
    THEN deleteDoc(articles, articleId[s])
    ELSE setDocMerge(articles, articleId[s], [formData[s] EXCEPT !.updatedAt = clock])

\* The collection after the setDoc that handleSave issued is applied.
written(s) ==
    IF isNew(s)
    THEN setDoc(articles, formData[s].slug, newArticleData(formData[s]))
    ELSE IF slugChanged(s)
    THEN setDoc(articles, formData[s].slug, articleData(formData[s]))
    ELSE setDocMerge(articles, articleId[s], articleData(formData[s]))

\* setDoc resolves: a rename goes on to delete the old document, every other
\* save navigates to the list.
SetDocReturns(s) ==
    /\ pc[s] = "set"
    /\ articles' = written(s)
    /\ IF ~isNew(s) /\ slugChanged(s)
       THEN /\ calls' = [calls EXCEPT ![s] = Append(@, "delete")]
            /\ pc' = [pc EXCEPT ![s] = "delete"]
            /\ UNCHANGED saving
       ELSE /\ pc' = [pc EXCEPT ![s] = "done"]
            /\ saving' = [saving EXCEPT ![s] = FALSE]
            /\ UNCHANGED calls
    /\ UNCHANGED <<clock, articleId, formData, activeTab, notice>>
    /\ UNCHANGED bvars
    /\ UNCHANGED gvars
    /\ UNCHANGED lvars
    /\ UNCHANGED <<touched, customSlug>>

\* setDoc rejects.
SetDocFails(s) ==
    /\ pc[s] = "set"
    /\ saveFailed(s)
    /\ UNCHANGED <<articles, clock, articleId, formData, activeTab, calls>>
    /\ UNCHANGED bvars
    /\ UNCHANGED gvars
    /\ UNCHANGED lvars
    /\ UNCHANGED <<touched, customSlug>>

\* deleteDoc of the old document resolves: the editor navigates to the list.
DeleteDocReturns(s) ==
    /\ pc[s] = "delete"
    /\ articles' = deleteDoc(articles, articleId[s])
    /\ pc' = [pc EXCEPT ![s] = "done"]
    /\ saving' = [saving EXCEPT ![s] = FALSE]
    /\ UNCHANGED <<clock, articleId, formData, activeTab, calls, notice>>
    /\ UNCHANGED bvars
    /\ UNCHANGED gvars
    /\ UNCHANGED lvars
    /\ UNCHANGED <<touched, customSlug>>

\* deleteDoc rejects.
DeleteDocFails(s) ==
    /\ pc[s] = "delete"
    /\ saveFailed(s)
    /\ UNCHANGED <<articles, clock, articleId, formData, activeTab, calls>>
    /\ UNCHANGED bvars
    /\ UNCHANGED gvars
    /\ UNCHANGED lvars
    /\ UNCHANGED <<touched, customSlug>>

----------------------------------------------------------------------------
(* The list page and the server clock *)

\* A delete that the list page of another browser issued resolves: its effect
\* on the repository.
RemoteDelete(id) ==
    /\ exists(articles, id)
    /\ articles' = deleteDoc(articles, id)
    /\ UNCHANGED <<clock, pc, articleId, formData, activeTab, saving, calls, notice>>
    /\ UNCHANGED bvars
    /\ UNCHANGED gvars
    /\ UNCHANGED lvars
    /\ UNCHANGED <<touched, customSlug>>

\* Time passes on the server.
Tick ==
    /\ clock < MaxClock
    /\ clock' = clock + 1
    /\ UNCHANGED <<articles, pc, articleId, formData, activeTab, saving, calls, notice>>
    /\ UNCHANGED bvars
    /\ UNCHANGED gvars
    /\ UNCHANGED lvars
    /\ UNCHANGED <<touched, customSlug>>

----------------------------------------------------------------------------
(* The blog editor *)

\* The initial formData state of the blog editor (the fields that take part in
\* the identity of a post, and its sync stamp).
InitialBlogFormData ==
    [slug |-> EMPTY, id |-> EMPTY, title |-> EMPTY, lastSyncedAt |-> NoTime]

blogIsNew == slugParam = NewRoute

\* The operator opens the blog editor: /dashboard/blog/new or /dashboard/blog/<slug>.
BlogOpen(id) ==
    /\ bpc \in {"closed", "done"}
    /\ slugParam' = id
    /\ bformData' = InitialBlogFormData
    /\ bsaving' = FALSE
    /\ bcalls' = <<>>
    /\ bnotice' = "none"
    /\ bpc' = IF id = NewRoute THEN "editing" ELSE "loading"
    /\ UNCHANGED blogPosts
    /\ UNCHANGED avars
    /\ UNCHANGED lvars

\* fetchPost, getDoc resolves: setFormData({ ...data }), or "Post not found".
FetchPost ==
    /\ bpc = "loading"
    /\ IF exists(blogPosts, slugParam)
       THEN /\ bformData' = blogPosts[slugParam]
            /\ bpc' = "editing"
            /\ UNCHANGED bnotice
       ELSE /\ bnotice' = "Post not found"
            /\ bpc' = "closed"
            /\ UNCHANGED bformData
    /\ UNCHANGED <<blogPosts, slugParam, bsaving, bcalls>>
    /\ UNCHANGED avars
    /\ UNCHANGED lvars

\* fetchPost, getDoc rejects.
FetchPostFails ==
    /\ bpc = "loading"
    /\ bpc' = "editing"
    /\ UNCHANGED <<blogPosts, slugParam, bformData, bsaving, bcalls, bnotice>>
    /\ UNCHANGED avars
    /\ UNCHANGED lvars

\* The form state after handleTitleChange.
blogTitleChanged(prev, title) ==
    LET newSlug == slugify(title)
    IN  IF blogIsNew /\ (prev.slug = EMPTY \/ prev.slug = slugify(prev.title))
        THEN [prev EXCEPT !.title = title, !.slug = newSlug, !.id = newSlug]
        ELSE [prev EXCEPT !.title = title]

HandleTitleChange(title) ==
    /\ bpc = "editing"
    /\ bformData' = blogTitleChanged(bformData, title)
    /\ UNCHANGED <<blogPosts, bpc, slugParam, bsaving, bcalls, bnotice>>
    /\ UNCHANGED avars
    /\ UNCHANGED lvars

\* The blog editor's slug input's onChange.
BlogSlugInput(text) ==
    /\ bpc = "editing"
    /\ bformData' = [bformData EXCEPT !.slug = slugify(text), !.id = slugify(text)]
    /\ UNCHANGED <<blogPosts, bpc, slugParam, bsaving, bcalls, bnotice>>
    /\ UNCHANGED avars
    /\ UNCHANGED lvars

\* The blog form's constraint validation: title and slug inputs are required.
blogRequiredFilled == bformData.slug # EMPTY /\ bformData.title # EMPTY

\* const postData = { ...formData, id: docId, lastSyncedAt: serverTimestamp() }
postData(form) == [form EXCEPT !.id = form.slug, !.lastSyncedAt = serverTimestamp]

\* setDoc(doc(db, "blog_posts", docId), postData, { merge: true }): every field
\* of postData is set, so the stored post takes postData's fields.
blogWritten == setDoc(blogPosts, bformData.slug, postData(bformData))

\* The blog editor's Save button: handleSave up to its await.
BlogHandleSave ==
    /\ bpc = "editing"
    /\ ~bsaving
    /\ IF ~blogRequiredFilled
       THEN /\ bnotice' = "Please fill out this field"
            /\ bcalls' = <<>>
            /\ UNCHANGED <<bpc, bsaving>>
       ELSE IF bformData.slug = EMPTY
       THEN /\ bnotice' = "Slug is required"
            /\ bcalls' = <<>>
            /\ UNCHANGED <<bpc, bsaving>>
       ELSE /\ bsaving' = TRUE
            /\ bnotice' = "none"
            /\ bcalls' = <<"set">>
            /\ bpc' = "set"
    /\ UNCHANGED <<blogPosts, slugParam, bformData>>
    /\ UNCHANGED avars
    /\ UNCHANGED lvars

\* setDoc resolves: the editor navigates to the blog list.
BlogSetDocReturns ==
    /\ bpc = "set"
    /\ blogPosts' = blogWritten
    /\ bpc' = "done"
    /\ bsaving' = FALSE
    /\ UNCHANGED <<slugParam, bformData, bcalls, bnotice>>
    /\ UNCHANGED avars
    /\ UNCHANGED lvars

\* setDoc rejects.
BlogSetDocFails ==
    /\ bpc = "set"
    /\ bnotice' = "Failed to save post"
    /\ bsaving' = FALSE
    /\ bpc' = "editing"
    /\ UNCHANGED <<blogPosts, slugParam, bformData, bcalls>>
    /\ UNCHANGED avars
    /\ UNCHANGED lvars

\* The blog list page's Delete button on a listed post, confirmed.
BlogHandleDelete(id) ==
    /\ exists(blogPosts, id)
    /\ blogPosts' = deleteDoc(blogPosts, id)
    /\ UNCHANGED <<bpc, slugParam, bformData, bsaving, bcalls, bnotice>>
    /\ UNCHANGED avars
    /\ UNCHANGED lvars

----------------------------------------------------------------------------
(* Strings as the list page compares them *)

\* The characters of the model's strings, in the order of their char codes.
Alphabet ==
    <<" ", "!", "-", "0", "1", "2", "3", "4", "5", "6", "7", "8", "9",
      "A", "B", "N", "_", "a", "b", "e", "n", "w">>

charCode(c) == CHOOSE i \in 1..Len(Alphabet) : Alphabet[i] = c

\* x < y on two strings: by the first char code that differs, a proper prefix first
RECURSIVE stringLess(_, _)
stringLess(x, y) ==
    IF y = <<>> THEN FALSE
    ELSE IF x = <<>> THEN TRUE
    ELSE IF Head(x) = Head(y) THEN stringLess(Tail(x), Tail(y))
    ELSE charCode(Head(x)) < charCode(Head(y))

\* text.includes(q)
includes(text, q) ==
    \E i \in 0..(Len(text) - Len(q)) : SubSeq(text, i + 1, i + Len(q)) = q

----------------------------------------------------------------------------
(* The article list page *)

\* useState({ key: 'date', direction: 'desc' })
InitialSortConfig == [key |-> "date", direction |-> "desc"]

ITEMS_PER_PAGE == 10

\* article.translations?.en?.title is defined
hasTitle(a) ==
    /\ "translations" \in DOMAIN a
    /\ "en" \in DOMAIN a.translations
    /\ "title" \in DOMAIN a.translations["en"]

hasCategory(a) == "category" \in DOMAIN a

\* a.createdAt?.seconds is truthy
hasSeconds(a) == "createdAt" \in DOMAIN a /\ a.createdAt # NoTime

\* { id: doc.id, ...doc.data() }
row(id, data) ==
    [f \in {"id"} \cup DOMAIN data |-> IF f \in DOMAIN data THEN data[f] ELSE id]

\* The ids of a query snapshot in the order forEach visits them (by document id).
RECURSIVE snapshotOrder(_)
snapshotOrder(ids) ==
    IF ids = {} THEN <<>>
    ELSE LET first == CHOOSE x \in ids : \A y \in ids \ {x} : stringLess(x, y)
         IN  <<first>> \o snapshotOrder(ids \ {first})

\* The articleData array that fetchArticles builds from the collection.
fetchedArticles(coll) ==
    LET order == snapshotOrder(DOMAIN coll)
    IN  [i \in 1..Len(order) |-> row(order[i], coll[order[i]])]

\* The filter callback: titleMatch || categoryMatch
matchesQuery(article, q) ==
    LET query == toLowerCase(q)
        titleMatch ==
            hasTitle(article)
            /\ includes(toLowerCase(article.translations["en"].title), query)
        categoryMatch ==
            hasCategory(article) /\ includes(toLowerCase(article.category), query)
    IN  titleMatch \/ categoryMatch

\* processedArticles.filter(...)
filterArticles(list, q) == SelectSeq(list, LAMBDA a : matchesQuery(a, q))

\* valueA / valueB of the sort comparator, before the lower-casing
sortValue(a, key) ==
    CASE key = "title" -> IF hasTitle(a) THEN a.translations["en"].title ELSE EMPTY
      [] key = "category" -> IF hasCategory(a) THEN a.category ELSE EMPTY
      [] key = "status" -> IF "status" \in DOMAIN a THEN a.status ELSE EMPTY
      [] key = "date" -> IF hasSeconds(a) THEN a.createdAt * 1000 ELSE 0
      [] OTHER -> EMPTY

\* Mutant: the strings are compared as they are stored.
valueLessCaseSensitive(x, y, key) ==
    IF key = "date" THEN x < y ELSE stringLess(x, y)

\* valueA < valueB, strings lower-cased first
valueLess(x, y, key) ==
    IF key = "date" THEN x < y ELSE stringLess(toLowerCase(x), toLowerCase(y))

\* The sort comparator: negative, positive or 0
compareArticles(a, b, config) ==
    LET valueA == sortValue(a, config.key)
        valueB == sortValue(b, config.key)
    IN  IF valueLess(valueA, valueB, config.key)
        THEN (IF config.direction = "asc" THEN -1 ELSE 1)
        ELSE IF valueLess(valueB, valueA, config.key)
        THEN (IF config.direction = "asc" THEN 1 ELSE -1)
        ELSE 0

\* x put into a sorted list behind every element that does not compare after it
RECURSIVE insertArticle(_, _, _)
insertArticle(sorted, x, config) ==
    IF sorted = <<>> THEN <<x>>
    ELSE IF compareArticles(Head(sorted), x, config) > 0 THEN <<x>> \o sorted
    ELSE <<Head(sorted)>> \o insertArticle(Tail(sorted), x, config)

\* processedArticles.sort(comparator): Array.prototype.sort is stable
RECURSIVE sortArticles(_, _)
sortArticles(list, config) ==
    IF list = <<>> THEN <<>>
    ELSE insertArticle(sortArticles(SubSeq(list, 1, Len(list) - 1), config),
                       list[Len(list)], config)

\* Mutant: the page count is rounded down.
pageCountFloor(n) == n \div ITEMS_PER_PAGE

\* Math.ceil(n / ITEMS_PER_PAGE)
pageCount(n) ==
    IF n % ITEMS_PER_PAGE = 0 THEN n \div ITEMS_PER_PAGE ELSE n \div ITEMS_PER_PAGE + 1

\* list.slice(start, end), indices from 0, end exclusive and clamped to the length
slice(list, start, end) ==
    LET last == IF end < Len(list) THEN end ELSE Len(list)
    IN  IF start >= last THEN <<>> ELSE SubSeq(list, start + 1, last)

\* The rows of page currentPage: list.slice(startIndex, startIndex + ITEMS_PER_PAGE)
pageArticles(list, page) ==
    LET startIndex == (page - 1) * ITEMS_PER_PAGE
    IN  slice(list, startIndex, startIndex + ITEMS_PER_PAGE)

\* What the list page renders from its state.
processedArticles == sortArticles(filterArticles(listArticles, searchQuery), sortConfig)
totalPages == pageCount(Len(processedArticles))
currentArticles == pageArticles(processedArticles, currentPage)

\* The operator opens /dashboard: the list page mounts and issues fetchArticles.
ArticleListPage ==
    /\ lpc = "closed"
    /\ lpc' = "fetching"
    /\ listArticles' = <<>>
    /\ loading' = TRUE
    /\ searchQuery' = EMPTY
    /\ sortConfig' = InitialSortConfig
    /\ currentPage' = 1
    /\ UNCHANGED <<deleteTarget, lnotice>>
    /\ UNCHANGED avars
    /\ UNCHANGED bvars

\* fetchArticles, getDocs resolves.
FetchArticlesReturns ==
    /\ lpc = "fetching"
    /\ listArticles' = fetchedArticles(articles)
    /\ loading' = FALSE
    /\ lpc' = "idle"
    /\ UNCHANGED <<searchQuery, sortConfig, currentPage, deleteTarget, lnotice>>
    /\ UNCHANGED avars
    /\ UNCHANGED bvars

\* fetchArticles, getDocs rejects: the error is logged.
FetchArticlesFails ==
    /\ lpc = "fetching"
    /\ loading' = FALSE
    /\ lpc' = "idle"
    /\ UNCHANGED <<listArticles, searchQuery, sortConfig, currentPage, deleteTarget,
                   lnotice>>
    /\ UNCHANGED avars
    /\ UNCHANGED bvars

\* Mutant: the effect that resets the page is missing.
SetSearchQueryKeepsPage(q) ==
    /\ lpc \in {"idle", "fetching", "deleting"}
    /\ ~loading
    /\ searchQuery' = q
    /\ UNCHANGED <<lpc, listArticles, loading, sortConfig, currentPage, deleteTarget,
                   lnotice>>
    /\ UNCHANGED avars
    /\ UNCHANGED bvars

\* The search input's onChange, and the effect that runs when searchQuery changed.
SetSearchQuery(q) ==
    /\ lpc \in {"idle", "fetching", "deleting"}
    /\ ~loading
    /\ searchQuery' = q
    /\ currentPage' = IF q # searchQuery THEN 1 ELSE currentPage
    /\ UNCHANGED <<lpc, listArticles, loading, sortConfig, deleteTarget, lnotice>>
    /\ UNCHANGED avars
    /\ UNCHANGED bvars

\* Mutant: a request always sorts ascending.
requestSortAscending(config, key) == [key |-> key, direction |-> "asc"]

\* The sortConfig that requestSort(key) sets.
requestSort(config, key) ==
    [key |-> key,
     direction |-> IF config.key = key /\ config.direction = "asc" THEN "desc" ELSE "asc"]

\* A click on a column header.
RequestSort(key) ==
    /\ lpc \in {"idle", "fetching", "deleting"}
    /\ ~loading
    /\ sortConfig' = requestSort(sortConfig, key)
    /\ UNCHANGED <<lpc, listArticles, loading, searchQuery, currentPage, deleteTarget,
                   lnotice>>
    /\ UNCHANGED avars
    /\ UNCHANGED bvars

\* A click on a page of the Pagination component, which is rendered while
\* processedArticles is not empty.
HandlePageChange(page) ==
    /\ lpc \in {"idle", "fetching", "deleting"}
    /\ ~loading
    /\ Len(processedArticles) > 0
    /\ currentPage' = page
    /\ UNCHANGED <<lpc, listArticles, loading, searchQuery, sortConfig, deleteTarget,
                   lnotice>>
    /\ UNCHANGED avars
    /\ UNCHANGED bvars

\* The Delete button of a displayed row, confirmed: handleDelete up to its await.
HandleDelete(id) ==
    /\ lpc = "idle"
    /\ ~loading
    /\ \E i \in 1..Len(currentArticles) : currentArticles[i].id = id
    /\ lpc' = "deleting"
    /\ deleteTarget' = id
    /\ UNCHANGED <<listArticles, loading, searchQuery, sortConfig, currentPage, lnotice>>
    /\ UNCHANGED avars
    /\ UNCHANGED bvars

\* deleteDoc resolves: fetchArticles is issued to refresh the list.
HandleDeleteReturns ==
    /\ lpc = "deleting"
    /\ articles' = deleteDoc(articles, deleteTarget)
    /\ lpc' = "fetching"
    /\ UNCHANGED <<listArticles, loading, searchQuery, sortConfig, currentPage,
                   deleteTarget, lnotice>>
    /\ UNCHANGED <<clock, pc, articleId, formData, activeTab, saving, calls, notice,
                   touched, customSlug>>
    /\ UNCHANGED gvars
    /\ UNCHANGED bvars

\* deleteDoc rejects: the error is logged.
HandleDeleteFails ==
    /\ lpc = "deleting"
    /\ lpc' = "idle"
    /\ UNCHANGED <<listArticles, loading, searchQuery, sortConfig, currentPage,
                   deleteTarget, lnotice>>
    /\ UNCHANGED avars
    /\ UNCHANGED bvars

----------------------------------------------------------------------------
(* Specifications *)

\* Both collections empty, no editor open.
Init ==
    /\ articles = <<>>
    /\ clock = 1
    /\ pc = [s \in Sessions |-> "closed"]
    /\ articleId = [s \in Sessions |-> NewRoute]
    /\ formData = [s \in Sessions |-> InitialFormData]
    /\ activeTab = [s \in Sessions |-> "en"]
    /\ saving = [s \in Sessions |-> FALSE]
    /\ calls = [s \in Sessions |-> <<>>]
    /\ notice = [s \in Sessions |-> "none"]
    /\ touched = [s \in Sessions |-> {}]
    /\ customSlug = [s \in Sessions |-> EMPTY]
    /\ loadFailed = [s \in Sessions |-> FALSE]
    /\ uploading = [s \in Sessions |-> FALSE]
    /\ uploadBatch = [s \in Sessions |-> <<>>]
    /\ blogPosts = <<>>
    /\ bpc = "closed"
    /\ slugParam = NewRoute
    /\ bformData = InitialBlogFormData
    /\ bsaving = FALSE
    /\ bcalls = <<>>
    /\ bnotice = "none"
    /\ lpc = "closed"
    /\ listArticles = <<>>
    /\ loading = TRUE
    /\ searchQuery = EMPTY
    /\ sortConfig = InitialSortConfig
    /\ currentPage = 1
    /\ deleteTarget = EMPTY
    /\ lnotice = "none"

\* One editor session, the article list page and the server clock, with every
\* input of the operator and every outcome of a repository call.
Next ==
    \/ \E id \in Keys \cup {NewRoute} : Open(Solo, id)
    \/ FetchArticle(Solo)
    \/ FetchArticleFails(Solo)
    \/ \E text \in TypedSlugs : SlugInput(Solo, text)
    \/ \E value \in TypedTitles :
          activeTab[Solo] = "en" /\ HandleTranslationChange(Solo, "title", value)
    \/ \E lang \in Tabs : SetActiveTab(Solo, lang)
    \/ Cancel(Solo)
    \/ HandleSave(Solo)
    \/ CheckSlugUniqueReturns(Solo)
    \/ CheckSlugUniqueFails(Solo)
    \/ SetDocReturns(Solo)
    \/ SetDocFails(Solo)
    \/ DeleteDocReturns(Solo)
    \/ DeleteDocFails(Solo)
    \/ \E id \in Keys : RemoteDelete(id)
    \/ Tick

Spec == Init /\ [][Next]_vars

\* Two editor sessions whose steps interleave, and the article list page. The
\* operators type a title and a slug; the clock stands still.
NextTwo ==
    \/ \E s \in Sessions, id \in Keys \cup {NewRoute} : Open(s, id)
    \/ \E s \in Sessions : FetchArticle(s)
    \/ \E s \in Sessions : FetchArticleFails(s)
    \/ \E s \in Sessions, text \in TypedSlugs \ {EMPTY} : SlugInput(s, text)
    \/ \E s \in Sessions, value \in TypedTitles \ {EMPTY} :
          HandleTranslationChange(s, "title", value)
    \/ \E s \in Sessions : HandleSave(s)
    \/ \E s \in Sessions : CheckSlugUniqueReturns(s)
    \/ \E s \in Sessions : CheckSlugUniqueFails(s)
    \/ \E s \in Sessions : SetDocReturns(s)
    \/ \E s \in Sessions : SetDocFails(s)
    \/ \E s \in Sessions : DeleteDocReturns(s)
    \/ \E s \in Sessions : DeleteDocFails(s)
    \/ \E id \in Keys : RemoteDelete(id)

SpecTwo == Init /\ [][NextTwo]_vars

\* The uniqueness query of one editor, answered over any stored collection:
\* documents under their slug and under repository-generated ids, several of
\* them possibly holding the same slug.
StoredIds == Keys \cup {<<"0">>, <<"1">>}

InitQuery ==
    /\ articles \in UNION {[D -> {[InitialFormData EXCEPT !.slug = sl] : sl \in Keys}] :
                              D \in SUBSET StoredIds}
    /\ clock = 1
    /\ pc = [s \in Sessions |-> IF s = Solo THEN "query" ELSE "closed"]
    /\ \E id \in Keys \cup {NewRoute} :
          articleId = [s \in Sessions |-> IF s = Solo THEN id ELSE NewRoute]
    /\ \E sl \in Keys :
          formData = [s \in Sessions |->
                        IF s = Solo THEN [InitialFormData EXCEPT !.slug = sl]
                        ELSE InitialFormData]
    /\ activeTab = [s \in Sessions |-> "en"]
    /\ saving = [s \in Sessions |-> s = Solo]
    /\ calls = [s \in Sessions |-> IF s = Solo THEN <<"query">> ELSE <<>>]
    /\ notice = [s \in Sessions |-> "none"]
    /\ touched = [s \in Sessions |-> IF s = Solo THEN {"slug"} ELSE {}]
    /\ customSlug = [s \in Sessions |-> EMPTY]
    /\ loadFailed = [s \in Sessions |-> FALSE]
    /\ uploading = [s \in Sessions |-> FALSE]
    /\ uploadBatch = [s \in Sessions |-> <<>>]
    /\ blogPosts = <<>>
    /\ bpc = "closed"
    /\ slugParam = NewRoute
    /\ bformData = InitialBlogFormData
    /\ bsaving = FALSE
    /\ bcalls = <<>>
    /\ bnotice = "none"
    /\ lpc = "closed"
    /\ listArticles = <<>>
    /\ loading = TRUE
    /\ searchQuery = EMPTY
    /\ sortConfig = InitialSortConfig
    /\ currentPage = 1
    /\ deleteTarget = EMPTY
    /\ lnotice = "none"

NextQuery ==
    \/ CheckSlugUniqueReturns(Solo)
    \/ CheckSlugUniqueFails(Solo)

SpecQuery == InitQuery /\ [][NextQuery]_vars

\* The shapes of the stored articles the list page is checked on: with and
\* without a title, a category, a status and a creation timestamp, in upper
\* and lower case. The list page compares statuses, so they are strings here.
RecordShapes ==
    <<[translations |-> [en |-> [title |-> <<"a">>]], category |-> <<"B">>,
       status |-> <<"b">>, createdAt |-> 1],
      [translations |-> [en |-> [title |-> <<"B">>]], status |-> <<"A">>,
       createdAt |-> NoTime],
      [category |-> <<"a", "b">>, createdAt |-> NoTime],
      [status |-> <<"a">>, createdAt |-> 1],
      [translations |-> [en |-> [title |-> <<"A">>]], category |-> <<"b">>,
       status |-> <<"B">>, createdAt |-> 2],
      [translations |-> [en |-> [title |-> EMPTY]], category |-> EMPTY,
       status |-> <<"a">>, createdAt |-> 2]>>

Digits == <<"0", "1", "2", "3", "4", "5", "6", "7", "8", "9">>

\* The document id of the i-th stored record.
docId(i) == <<Digits[(i \div 10) + 1], Digits[(i % 10) + 1]>>

\* The collection that holds the records recs under the ids docId(1), docId(2), ...
collectionOf(recs) ==
    [id \in {docId(i) : i \in 1..Len(recs)} |->
        recs[CHOOSE i \in 1..Len(recs) : docId(i) = id]]

ShortCollections ==
    {collectionOf([i \in 1..Len(shape) |-> RecordShapes[shape[i]]]) :
        shape \in UNION {[1..n -> 1..Len(RecordShapes)] : n \in 0..MaxRecords}}

\* No editor is open; the list page is not mounted yet.
InitClosed ==
    /\ clock = 1
    /\ pc = [s \in Sessions |-> "closed"]
    /\ articleId = [s \in Sessions |-> NewRoute]
    /\ formData = [s \in Sessions |-> InitialFormData]
    /\ activeTab = [s \in Sessions |-> "en"]
    /\ saving = [s \in Sessions |-> FALSE]
    /\ calls = [s \in Sessions |-> <<>>]
    /\ notice = [s \in Sessions |-> "none"]
    /\ touched = [s \in Sessions |-> {}]
    /\ customSlug = [s \in Sessions |-> EMPTY]
    /\ loadFailed = [s \in Sessions |-> FALSE]
    /\ uploading = [s \in Sessions |-> FALSE]
    /\ uploadBatch = [s \in Sessions |-> <<>>]
    /\ blogPosts = <<>>
    /\ bpc = "closed"
    /\ slugParam = NewRoute
    /\ bformData = InitialBlogFormData
    /\ bsaving = FALSE
    /\ bcalls = <<>>
    /\ bnotice = "none"
    /\ lpc = "closed"
    /\ listArticles = <<>>
    /\ loading = TRUE
    /\ searchQuery = EMPTY
    /\ sortConfig = InitialSortConfig
    /\ currentPage = 1
    /\ deleteTarget = EMPTY
    /\ lnotice = "none"

\* The article list page over any stored collection of up to MaxRecords records.
InitList ==
    /\ articles \in ShortCollections
    /\ InitClosed

NextList ==
    \/ ArticleListPage
    \/ FetchArticlesReturns
    \/ FetchArticlesFails
    \/ \E q \in Queries : SetSearchQuery(q)
    \/ \E key \in SortKeys : RequestSort(key)
    \/ \E page \in 1..totalPages : HandlePageChange(page)
    \/ \E id \in DOMAIN articles : HandleDelete(id)
    \/ HandleDeleteReturns
    \/ HandleDeleteFails

SpecList == InitList /\ [][NextList]_vars

\* The article list page over collections of up to MaxListed records with a
\* title each, to page through.
PagedCollections ==
    {collectionOf([i \in 1..n |-> RecordShapes[((i - 1) % 2) + 1]]) : n \in 0..MaxListed}

InitPages ==
    /\ articles \in PagedCollections
    /\ InitClosed

NextPages ==
    \/ ArticleListPage
    \/ FetchArticlesReturns
    \/ FetchArticlesFails
    \/ \E q \in Queries : SetSearchQuery(q)
    \/ \E key \in SortKeys : RequestSort(key)
    \/ \E page \in 1..totalPages : HandlePageChange(page)

SpecPages == InitPages /\ [][NextPages]_vars

\* The title input of the article editor and the slug input of the blog
\* editor on their "new" routes, one editor open at a time, over every text
\* of up to MaxLen characters.
NextSlugify ==
    \/ bpc = "closed" /\ Open(Solo, NewRoute)
    \/ \E value \in Texts : HandleTranslationChange(Solo, "title", value)
    \/ Cancel(Solo)
    \/ pc[Solo] = "closed" /\ BlogOpen(NewRoute)
    \/ \E text \in Texts : BlogSlugInput(text)

SpecSlugify == Init /\ [][NextSlugify]_vars

\* The article editor on the "new" route: the operator edits the slug, and
\* the title and the subtitle of the English and the Arabic tab.
NextEdit ==
    \/ Open(Solo, NewRoute)
    \/ \E text \in EditTexts : SlugInput(Solo, text)
    \/ \E field \in {"title", "h2"}, value \in EditTexts :
          HandleTranslationChange(Solo, field, value)
    \/ \E lang \in Tabs : SetActiveTab(Solo, lang)
    \/ Cancel(Solo)

SpecEdit == Init /\ [][NextEdit]_vars

\* The blog editor, the blog list page and the server clock.
NextBlog ==
    \/ \E id \in Keys \cup {NewRoute} : BlogOpen(id)
    \/ FetchPost
    \/ FetchPostFails
    \/ \E title \in TypedTitles : HandleTitleChange(title)
    \/ \E text \in TypedSlugs : BlogSlugInput(text)
    \/ BlogHandleSave
    \/ BlogSetDocReturns
    \/ BlogSetDocFails
    \/ \E id \in Keys : BlogHandleDelete(id)
    \/ Tick

SpecBlog == Init /\ [][NextBlog]_vars

\* The article editor over a stored record whose translations map holds only
\* some of the locales (a record written before a locale was added, or by
\* another tool): the operator opens it, edits its titles and saves it under
\* its slug.
StoredLocales == {{}, {"en"}, {"en", "zh"}, {"ar", "ru", "nl"}, LANGUAGES}

storedTranslation(l) ==
    [EmptyTranslation EXCEPT !.title = IF l = "en" THEN <<"A">> ELSE <<"B">>]

InitLoad ==
    /\ InitClosed
    /\ \E D \in StoredLocales :
          articles = [k \in {<<"a">>} |->
                        [InitialFormData EXCEPT
                            !.slug = <<"a">>,
                            !.translations = [l \in D |-> storedTranslation(l)],
                            !.status = "published",
                            !.createdAt = 1,
                            !.updatedAt = 1]]

NextLoad ==
    \/ \E id \in Keys : Open(Solo, id)
    \/ FetchArticle(Solo)
    \/ FetchArticleFails(Solo)
    \/ SlugInput(Solo, <<"a">>)
    \/ \E value \in TypedTitles : HandleTranslationChange(Solo, "title", value)
    \/ \E lang \in Tabs : SetActiveTab(Solo, lang)
    \/ Cancel(Solo)
    \/ HandleSave(Solo)
    \/ CheckSlugUniqueReturns(Solo)
    \/ CheckSlugUniqueFails(Solo)
    \/ SetDocReturns(Solo)
    \/ SetDocFails(Solo)

SpecLoad == InitLoad /\ [][NextLoad]_vars

\* The gallery of the article editor on the "new" route: batches of files are
\* uploaded, each upload ends well or not, and entries are removed.
NextGallery ==
    \/ Open(Solo, NewRoute)
    \/ \E files \in Batches : HandleGalleryUpload(Solo, files)
    \/ GalleryUploadReturns(Solo)
    \/ GalleryUploadFails(Solo)
    \/ \E index \in 0..(MaxGallery - 1) : RemoveGalleryImage(Solo, index)
    \/ Cancel(Solo)

SpecGallery == Init /\ [][NextGallery]_vars

\* The article list page over a collection that fills one page and one row
\* more: the operator searches, sorts, pages, and deletes the last row shown.
InitLastPage ==
    /\ articles = collectionOf([i \in 1..(ITEMS_PER_PAGE + 1) |->
                                  RecordShapes[((i - 1) % 2) + 1]])
    /\ InitClosed

NextLastPage ==
    \/ ArticleListPage
    \/ FetchArticlesReturns
    \/ FetchArticlesFails
    \/ \E q \in {EMPTY, <<"a">>} : SetSearchQuery(q)
    \/ RequestSort("title")
    \/ \E page \in 1..totalPages : HandlePageChange(page)
    \/ /\ currentArticles # <<>>
       /\ HandleDelete(currentArticles[Len(currentArticles)].id)
    \/ HandleDeleteReturns
    \/ HandleDeleteFails

SpecLastPage == InitLastPage /\ [][NextLastPage]_vars

\* The article editor on the "new" route, where the operator may also type
\* the slug "new": records are created one after the other.
NextNew ==
    \/ Open(Solo, NewRoute)
    \/ \E text \in {<<"a">>, NewRoute} : SlugInput(Solo, text)
    \/ \E value \in TypedTitles : HandleTranslationChange(Solo, "title", value)
    \/ Cancel(Solo)
    \/ HandleSave(Solo)
    \/ CheckSlugUniqueReturns(Solo)
    \/ CheckSlugUniqueFails(Solo)
    \/ SetDocReturns(Solo)
    \/ SetDocFails(Solo)
    \/ Tick

SpecNew == Init /\ [][NextNew]_vars

----------------------------------------------------------------------------
(* Claims *)

SaveStages == {"query", "set", "delete"}
Failed == "Failed to save article"
Taken == "This slug is already taken"

\* C1: in the article editor and in the blog editor, the step that completes a
\* save of an existing record stored at k1 whose slug was changed to a unique
\* k2 # k1 leaves a document at k2 and none at k1.
C1_RenameMovesRecord ==
    [][/\ \A s \in Sessions :
            (pc[s] = "delete" /\ pc'[s] = "done" /\ exists(articles, articleId[s]))
            => /\ exists(articles', formData[s].slug)
               /\ ~exists(articles', articleId[s])
       /\ (/\ bpc = "set" /\ bpc' = "done"
           /\ slugParam # NewRoute /\ exists(blogPosts, slugParam)
           /\ bformData.slug # slugParam /\ ~exists(blogPosts, bformData.slug))
          => /\ exists(blogPosts', bformData.slug)
             /\ ~exists(blogPosts', slugParam)]_vars

\* C2: in an article rename the write at the new key is issued first and the
\* delete of the old key only in the step in which that write succeeded; a
\* failed write leaves the collection as it is and issues no delete; the only
\* document a save ever removes is the one at the old key, by the delete
\* issued after the write.
C2_CreateThenDelete ==
    [][\A s \in Sessions :
        /\ (calls'[s] # calls[s] /\ calls'[s] # <<>>
                /\ calls'[s][Len(calls'[s])] = "delete")
           => /\ pc[s] = "set" /\ calls[s] = <<"query", "set">>
              /\ exists(articles', formData[s].slug)
              /\ articles'[formData[s].slug].slug = formData[s].slug
              /\ articles'[formData[s].slug].translations = formData[s].translations
              /\ \A k \in DOMAIN articles : exists(articles', k)
        /\ (pc[s] = "set" /\ notice'[s] = Failed)
           => /\ articles' = articles
              /\ calls'[s] = calls[s]
              /\ pc'[s] = "editing"
        /\ (pc'[s] # pc[s] /\ \E k \in DOMAIN articles : ~exists(articles', k))
           => /\ pc[s] = "delete"
              /\ calls[s] = <<"query", "set", "delete">>
              /\ DOMAIN articles' = DOMAIN articles \ {articleId[s]}]_vars

\* C2 witness: a rename between its two steps, the record at both keys.
C2_Witness ==
    \E s \in Sessions :
        /\ pc[s] = "delete"
        /\ exists(articles, articleId[s])
        /\ exists(articles, formData[s].slug)
        /\ formData[s].slug # articleId[s]

\* C3: no two stored articles hold the same slug value.
C3_SlugsUnique ==
    \A k1 \in DOMAIN articles : \A k2 \in DOMAIN articles :
        articles[k1].slug = articles[k2].slug => k1 = k2

\* C3 witness: two stored articles, left by a rename whose delete failed.
C3_Witness ==
    /\ Cardinality(DOMAIN articles) = 2
    /\ \E s \in Sessions :
          /\ notice[s] = Failed
          /\ calls[s] = <<"query", "set", "delete">>
          /\ exists(articles, articleId[s])
          /\ exists(articles, formData[s].slug)

\* C4: checkSlugUnique(slug) is true exactly when every stored article holding
\* slug has the key of the record being edited, and false exactly when some
\* stored article with another key holds it.
C4_CheckSlugUnique ==
    \A s \in Sessions : \A slug \in Keys :
        /\ checkSlugUnique(articles, slug, articleId[s])
            <=> (\A k \in DOMAIN articles : articles[k].slug = slug => k = articleId[s])
        /\ ~checkSlugUnique(articles, slug, articleId[s])
            <=> (\E k \in DOMAIN articles : articles[k].slug = slug /\ k # articleId[s])

\* C4 witness: the query was answered "taken" for a slug that the edited
\* record and another stored record both hold, while another slug is unique.
C4_Witness ==
    \E s \in Sessions :
        /\ notice[s] = Taken
        /\ exists(articles, articleId[s])
        /\ articles[articleId[s]].slug = formData[s].slug
        /\ \E k \in DOMAIN articles :
              k # articleId[s] /\ articles[k].slug = formData[s].slug
        /\ \E slug \in Keys :
              /\ slug # formData[s].slug
              /\ checkSlugUnique(articles, slug, articleId[s])

\* Some stored article other than the one session s edits holds s's slug.
heldByOther(s) ==
    \E k \in DOMAIN articles : articles[k].slug = formData[s].slug /\ k # articleId[s]

\* C5: when the uniqueness query of an article save comes back while another
\* stored record holds the slug, the save has issued that one query and
\* nothing else, the collection and the form are unchanged, saving is false
\* again and the editor stays open.
C5_ConflictBlocksSave ==
    [][\A s \in Sessions :
        (pc[s] = "query" /\ pc'[s] # "query" /\ heldByOther(s))
        => /\ calls'[s] = <<"query">>
           /\ articles' = articles
           /\ formData'[s] = formData[s]
           /\ saving'[s] = FALSE
           /\ pc'[s] = "editing"]_vars

\* C5 witness: a save that ended with the conflict alert.
C5_Witness ==
    \E s \in Sessions :
        /\ notice[s] = Taken
        /\ heldByOther(s)
        /\ calls[s] = <<"query">>
        /\ pc[s] = "editing" /\ ~saving[s]

\* C6: a blog save never writes onto a stored post other than the one being
\* edited (because every save checks the slug first and aborts on a conflict).
C6_BlogSaveNeverOverwritesOther ==
    [][(bpc = "set" /\ bpc' = "done" /\ exists(blogPosts, bformData.slug))
        => (slugParam # NewRoute /\ bformData.slug = slugParam)]_vars

\* C7: an article save of an existing record whose slug equals its key issues
\* one merge write and no delete, and every field of the stored document that
\* the operator did not edit keeps the value it has in the repository.
C7_MergeKeepsUntouched ==
    [][\A s \in Sessions :
        (/\ pc[s] = "set" /\ pc'[s] = "done"
         /\ articleId[s] # NewRoute /\ formData[s].slug = articleId[s]
         /\ exists(articles, articleId[s]))
        => /\ calls'[s] = <<"query", "set">>
           /\ "translations" \notin touched[s]
                => articles'[articleId[s]].translations
                       = articles[articleId[s]].translations
           /\ articles'[articleId[s]].status = articles[articleId[s]].status
           /\ articles'[articleId[s]].createdAt = articles[articleId[s]].createdAt]_vars

\* C8: the write of a new-record save with slug s leaves at key s a document
\* with the form's fields, status "published" and both timestamps stamped;
\* every other document is as before, and with s unused one document is added.
C8_NewRecordCreated ==
    [][\A s \in Sessions :
        (pc[s] = "set" /\ pc'[s] = "done" /\ articleId[s] = NewRoute)
        => LET key == formData[s].slug IN
           /\ key # EMPTY
           /\ DOMAIN articles' = DOMAIN articles \cup {key}
           /\ \A k \in DOMAIN articles : k # key => articles'[k] = articles[k]
           /\ articles'[key].slug = key
           /\ articles'[key].translations = formData[s].translations
           /\ articles'[key].status = "published"
           /\ articles'[key].createdAt = clock /\ articles'[key].createdAt # NoTime
           /\ articles'[key].updatedAt = clock
           /\ ~exists(articles, key)
                => Cardinality(DOMAIN articles') = Cardinality(DOMAIN articles) + 1
           /\ calls'[s] = <<"query", "set">>]_vars

\* C8 witness: a new-record save has completed and its document is stored.
C8_Witness ==
    \E s \in Sessions :
        /\ pc[s] = "done" /\ articleId[s] = NewRoute
        /\ calls[s] = <<"query", "set">>
        /\ exists(articles, formData[s].slug)
        /\ articles[formData[s].slug].status = "published"
        /\ articles[formData[s].slug].createdAt # NoTime

\* C9: while a save has a repository call in flight, no required field of its
\* form (slug, English title) is empty: a save with a required field missing
\* issues no repository call.
C9_MissingFieldBlocksSave ==
    \A s \in Sessions :
        pc[s] \in SaveStages
        => /\ formData[s].slug # EMPTY
           /\ formData[s].translations["en"].title # EMPTY

\* C10: the step in which a repository call of an article save fails ends the
\* save: no call is added, the collection and the form are unchanged, saving
\* is false and the editor is open; no step of a save changes the form; and
\* after the failure the next call is the query of a new trigger.
C10_FailureEndsSave ==
    [][\A s \in Sessions :
        /\ (pc[s] \in SaveStages /\ notice'[s] = Failed)
           => /\ calls'[s] = calls[s]
              /\ articles' = articles
              /\ formData'[s] = formData[s]
              /\ saving'[s] = FALSE
              /\ pc'[s] = "editing"
        /\ pc[s] \in SaveStages => formData'[s] = formData[s]
        /\ (notice[s] = Failed /\ calls'[s] # calls[s])
           => /\ pc[s] = "editing"
              /\ calls'[s] \in {<<>>, <<"query">>}
              /\ notice'[s] # Failed]_vars

\* C10 witness: a rename whose delete failed; the editor is open for a retry.
C10_Witness ==
    \E s \in Sessions :
        /\ notice[s] = Failed
        /\ calls[s] = <<"query", "set", "delete">>
        /\ pc[s] = "editing" /\ ~saving[s]

\* C11: every storage failure surfaces a notice: when the read of the record
\* rejects (the editor opens with nothing read into the form), when a call of
\* a save rejects, and when the delete issued from the list page rejects, the
\* step leaves a notice on the page.
C11_FailureSurfacesNotice ==
    [][/\ \A s \in Sessions :
            /\ (pc[s] = "loading" /\ pc'[s] = "editing" /\ formData'[s] = formData[s])
               => notice'[s] # "none"
            /\ (pc[s] \in SaveStages /\ pc'[s] = "editing") => notice'[s] # "none"
       /\ (lpc = "deleting" /\ lpc' = "idle") => lnotice' # "none"]_vars

\* What the operator of session s sees of the outcome of a save.
signal(s) == <<notice[s], saving[s], pc[s]>>

\* The last save of session s was a rename that failed at its delete.
renameFailed(s) ==
    /\ notice[s] = Failed
    /\ calls[s] = <<"query", "set", "delete">>

\* The last save of session s was an update of a record whose slug the
\* operator never edited, and its write failed.
updateFailed(s) ==
    /\ notice[s] = Failed
    /\ calls[s] = <<"query", "set">>
    /\ articleId[s] # NewRoute
    /\ formData[s].slug = articleId[s]
    /\ "slug" \notin touched[s]

\* C12: the failure signal of a failed rename differs from the failure signal
\* of a failed identity-unchanged update.
C12_RenameFailureDistinct ==
    \A s1 \in Sessions : \A s2 \in Sessions :
        (renameFailed(s1) /\ updateFailed(s2)) => signal(s1) # signal(s2)

\* C13: slugify is idempotent: for the title typed into the article editor,
\* for the slug the article editor derives from it and for the slug the blog
\* editor's slug input stores, applying slugify once more changes nothing.
C13_SlugifyIdempotent ==
    /\ \A s \in Sessions :
          LET title == formData[s].translations["en"].title
          IN  /\ slugify(slugify(title)) = slugify(title)
              /\ slugify(formData[s].slug) = formData[s].slug
    /\ slugify(bformData.slug) = bformData.slug

\* C13 witness: the article editor holds a title that slugify shortens by
\* taking out a character between two hyphens, and the slug derived from it.
C13_Witness ==
    /\ formData[Solo].translations["en"].title = <<"-", "!", "-">>
    /\ formData[Solo].slug = <<"-">>
    /\ formData[Solo].slug = slugify(formData[Solo].translations["en"].title)

\* Lower-case word characters
LowerWordChars == {c \in WordChars : LowerOf(c) = c}

\* text has only lower-case word characters and hyphens, and every hyphen
\* stands between two word characters
wellFormedSlug(text) ==
    /\ \A i \in 1..Len(text) : text[i] \in LowerWordChars \cup {"-"}
    /\ text # <<>> => (text[1] # "-" /\ text[Len(text)] # "-")
    /\ \A i \in 1..(Len(text) - 1) : ~(text[i] = "-" /\ text[i + 1] = "-")

\* C14: the slug that slugify produced (from the title in the article editor,
\* from the slug input in the blog editor) has only lower-case word
\* characters and hyphens, no leading, no trailing and no two adjacent hyphens.
C14_SlugWellFormed ==
    /\ \A s \in Sessions : wellFormedSlug(formData[s].slug)
    /\ wellFormedSlug(bformData.slug)

\* C15: an edit of a translation field of the article editor changes the
\* slug only when it changes the English title while the slug is empty or is
\* the slug of the title before the edit, and then the slug becomes the slug
\* of the new title; every other edit of a translation leaves the slug as it is.
C15_AutoSlugRule ==
    [][\A s \in Sessions :
        LET oldTitle == formData[s].translations["en"].title
            newTitle == formData'[s].translations["en"].title
        IN  (/\ pc[s] = "editing" /\ pc'[s] = "editing"
             /\ formData'[s].translations # formData[s].translations)
            => IF /\ newTitle # oldTitle
                  /\ (formData[s].slug = EMPTY \/ formData[s].slug = slugify(oldTitle))
               THEN formData'[s].slug = slugify(newTitle)
               ELSE formData'[s].slug = formData[s].slug]_vars

\* C15 witness: the operator has typed an English title, an English subtitle
\* and an Arabic title, and the slug is a typed one that is not the title's.
C15_Witness ==
    /\ pc[Solo] = "editing"
    /\ formData[Solo].translations["en"].title = <<"a", " ", "B">>
    /\ formData[Solo].translations["en"].h2 # EMPTY
    /\ formData[Solo].translations["ar"].title # EMPTY
    /\ formData[Solo].slug = <<"b">>
    /\ customSlug[Solo] = <<"b">>

\* C16: while a custom slug typed by the operator is in force (the slug field
\* has not been edited since), the form's slug is that custom slug, whatever
\* title edits followed.
C16_CustomSlugStays ==
    \A s \in Sessions : customSlug[s] # EMPTY => formData[s].slug = customSlug[s]

\* q occurs in text, letter case ignored
occursIn(q, text) ==
    \E i \in 1..(Len(text) + 1) :
        /\ i + Len(q) - 1 <= Len(text)
        /\ \A j \in 1..Len(q) : LowerOf(text[i + j - 1]) = LowerOf(q[j])

\* q occurs in the English title or in the category of the row a
titleOrCategoryHas(a, q) ==
    \/ /\ "translations" \in DOMAIN a /\ "en" \in DOMAIN a.translations
       /\ occursIn(q, a.translations["en"].title)
    \/ "category" \in DOMAIN a /\ occursIn(q, a.category)

\* C17: for every query the article list filter keeps exactly the fetched
\* rows whose English title or category holds the query, letter case
\* ignored, in their order; with the empty query it keeps every row.
C17_FilterKeepsMatches ==
    /\ \A q \in Queries :
          filterArticles(listArticles, q)
              = SelectSeq(listArticles, LAMBDA a : titleOrCategoryHas(a, q))
    /\ filterArticles(listArticles, EMPTY) = listArticles

\* The value of row a under the sort key: the lower-cased title, category or
\* status (the empty string when missing), or the creation time in
\* milliseconds (0 when missing).
keyValue(a, key) ==
    IF key = "date"
    THEN (IF "createdAt" \in DOMAIN a THEN a.createdAt * 1000 ELSE 0)
    ELSE IF key = "title"
    THEN (IF "translations" \in DOMAIN a /\ "en" \in DOMAIN a.translations
          THEN toLowerCase(a.translations["en"].title) ELSE EMPTY)
    ELSE IF key \in DOMAIN a THEN toLowerCase(a[key]) ELSE EMPTY

\* a's value comes strictly before b's under the sort key
keyBefore(a, b, key) ==
    IF key = "date" THEN keyValue(a, key) < keyValue(b, key)
    ELSE stringLess(keyValue(a, key), keyValue(b, key))

\* C18: for every sort key and direction the article list sort returns a
\* permutation of the rows the filter kept in which no row stands before a row whose
\* value belongs before it (title, category and status lower-cased, missing
\* as the empty string; date in milliseconds, missing as 0); sorted by date
\* ascending, no row with a timestamp stands before a row without one.
C18_SortOrders ==
    \A key \in SortKeys \cup {"date"} : \A direction \in {"asc", "desc"} :
        LET filtered == filterArticles(listArticles, searchQuery)
            sorted == sortArticles(filtered, [key |-> key, direction |-> direction])
        IN  /\ Len(sorted) = Len(filtered)
            /\ \A i \in 1..Len(filtered) : \E j \in 1..Len(sorted) : sorted[j] = filtered[i]
            /\ \A i \in 1..Len(sorted) : \A j \in 1..Len(sorted) :
                  i < j => IF direction = "asc"
                           THEN ~keyBefore(sorted[j], sorted[i], key)
                           ELSE ~keyBefore(sorted[i], sorted[j], key)
            /\ (key = "date" /\ direction = "asc")
               => \A i \in 1..Len(sorted) : \A j \in 1..Len(sorted) :
                     (i < j /\ sorted[i].createdAt # NoTime) => sorted[j].createdAt # NoTime

\* C18 witness: two fetched rows, the title "B" before the title "a", are
\* shown sorted by title ascending with "a" first; one has no timestamp.
C18_Witness ==
    /\ lpc = "idle"
    /\ Len(listArticles) = 2
    /\ sortConfig = [key |-> "title", direction |-> "asc"]
    /\ Len(processedArticles) = 2
    /\ processedArticles[1] = listArticles[2]
    /\ hasTitle(listArticles[1]) /\ hasTitle(listArticles[2])
    /\ listArticles[1].translations["en"].title = <<"B">>
    /\ listArticles[2].translations["en"].title = <<"a">>
    /\ listArticles[1].createdAt = NoTime

\* The sort request that the claim gives for a click on column k.
nextSortRequest(config, k) ==
    IF config = [key |-> k, direction |-> "asc"] THEN [key |-> k, direction |-> "desc"]
    ELSE IF config = [key |-> k, direction |-> "desc"] THEN [key |-> k, direction |-> "asc"]
    ELSE [key |-> k, direction |-> "asc"]

\* C19: the sort request starts at (date, descending); in every state
\* requestSort(k) gives (k, descending) from (k, ascending), (k, ascending)
\* from (k, descending) and (k, ascending) from another key; and the sort
\* request changes only by such a move.
C19_SortRequestMachine ==
    /\ sortConfig = [key |-> "date", direction |-> "desc"]
    /\ [](\A k \in SortKeys : requestSort(sortConfig, k) = nextSortRequest(sortConfig, k))
    /\ [][sortConfig' # sortConfig
            => \E k \in SortKeys : sortConfig' = nextSortRequest(sortConfig, k)]_vars

\* C19 witness: the list is sorted by status, descending (two clicks on it).
C19_Witness ==
    /\ lpc = "idle"
    /\ sortConfig = [key |-> "status", direction |-> "desc"]

\* The pages 1..p of list, one after the other.
RECURSIVE pagesUpTo(_, _)
pagesUpTo(list, p) ==
    IF p = 0 THEN <<>> ELSE pagesUpTo(list, p - 1) \o pageArticles(list, p)

\* C20: with page size 10 and n processed rows, totalPages is the least
\* number of pages of 10 that hold n rows, page p shows the rows at the
\* indices (p-1)*10 up to but excluding min(p*10, n) in order, and the pages
\* 1..totalPages one after the other are the processed list; for n = 23
\* there are 3 pages and page 3 shows the rows at the indices 20 to 22.
C20_Pagination ==
    LET n == Len(processedArticles)
    IN  /\ totalPages * 10 >= n
        /\ totalPages > 0 => (totalPages - 1) * 10 < n
        /\ \A p \in 1..totalPages :
              LET page == pageArticles(processedArticles, p)
                  from == (p - 1) * 10
                  to == IF p * 10 < n THEN p * 10 ELSE n
              IN  /\ Len(page) = to - from
                  /\ \A i \in 1..Len(page) : page[i] = processedArticles[from + i]
        /\ pagesUpTo(processedArticles, totalPages) = processedArticles
        /\ n = 23 => /\ totalPages = 3
                     /\ pageArticles(processedArticles, 3)
                           = <<processedArticles[21], processedArticles[22],
                               processedArticles[23]>>

\* C20 witness: 23 processed rows, the third page shown with its three rows.
C20_Witness ==
    /\ lpc = "idle"
    /\ Len(processedArticles) = 23
    /\ currentPage = 3
    /\ currentArticles
          = <<processedArticles[21], processedArticles[22], processedArticles[23]>>

\* C21: on the list page every change of the search query sets the current
\* page to 1, and a sort request (a change of sortConfig) leaves the current
\* page as it is.
C21_QueryResetsPageSortKeepsIt ==
    [][/\ searchQuery' # searchQuery => currentPage' = 1
       /\ sortConfig' # sortConfig => currentPage' = currentPage]_vars

\* C21 witness: a query was typed (the page went to 1), the operator went on
\* to page 2 of the filtered list and sorted it by title: the page is still 2.
C21_Witness ==
    /\ lpc = "idle"
    /\ searchQuery # EMPTY
    /\ sortConfig.key = "title"
    /\ totalPages >= 2
    /\ currentPage = 2

\* C22: in every state of the article editor the translations map of the form
\* has an entry for every locale of LANGUAGES; and when the load of a stored
\* record ends, a locale the stored record lacks holds the all-empty
\* translation and a locale it has holds the stored translation.
C22_TranslationsComplete ==
    /\ [](\A s \in Sessions : LANGUAGES \subseteq DOMAIN formData[s].translations)
    /\ [][\A s \in Sessions :
            (pc[s] = "loading" /\ pc'[s] = "editing" /\ ~loadFailed'[s])
            => LET stored == articles[articleId[s]].translations
               IN  \A l \in LANGUAGES :
                      formData'[s].translations[l]
                         = IF l \in DOMAIN stored THEN stored[l] ELSE EmptyTranslation]_vars

\* C22 witness: a record stored with its English translation only was loaded:
\* the form holds the stored English translation and the empty Chinese one.
C22_Witness ==
    /\ pc[Solo] = "editing"
    /\ ~loadFailed[Solo]
    /\ touched[Solo] = {}
    /\ exists(articles, articleId[Solo])
    /\ DOMAIN articles[articleId[Solo]].translations = {"en"}
    /\ formData[Solo].translations["en"] = articles[articleId[Solo]].translations["en"]
    /\ formData[Solo].translations["en"] # EmptyTranslation
    /\ formData[Solo].translations["zh"] = EmptyTranslation

\* C23: a gallery upload is all-or-nothing. The step that ends it either
\* appends the URLs of all files of the batch, in file order, after the
\* entries the gallery has, or alerts and leaves the gallery as it is; and no
\* step taken while the upload goes on adds an entry.
C23_UploadAllOrNothing ==
    [][\A s \in Sessions :
          LET gallery == formData[s].gallery
              after == formData'[s].gallery
          IN  /\ (uploading[s] /\ ~uploading'[s] /\ pc'[s] = "editing")
                 => \/ /\ after = gallery \o downloadURLs(uploadBatch[s])
                       /\ notice'[s] = notice[s]
                    \/ /\ after = gallery
                       /\ notice'[s] = "Failed to upload images."
              /\ uploading'[s] => Len(after) <= Len(gallery)]_vars

\* C23 witness: a batch of two files was appended after an existing entry.
C23_Witness ==
    /\ pc[Solo] = "editing"
    /\ ~uploading[Solo]
    /\ notice[Solo] = "none"
    /\ formData[Solo].gallery
          = <<downloadURL("b"), downloadURL("a"), downloadURL("b")>>

\* The gallery without its entry at index (from 0), the others in order.
withoutIndex(gallery, index) ==
    [k \in 1..(Len(gallery) - 1) |-> IF k <= index THEN gallery[k] ELSE gallery[k + 1]]

\* C24: removeGalleryImage(i) on a gallery of n entries removes exactly the
\* entry at index i and keeps the others in order when 0 <= i < n, also when
\* a URL occurs several times, and leaves the gallery unchanged for any other
\* i; appending [a, b] to the empty gallery and removing index 0 gives [b];
\* and a step of the remove button changes the gallery in that way.
C24_RemoveAtIndex ==
    /\ [](\A s \in Sessions :
            LET gallery == formData[s].gallery
            IN  \A i \in (0 - 1)..(Len(gallery) + 1) :
                   removeGalleryImage(gallery, i)
                      = IF i \in 0..(Len(gallery) - 1)
                        THEN withoutIndex(gallery, i) ELSE gallery)
    /\ [](removeGalleryImage(appended(<<>>, <<downloadURL("a"), downloadURL("b")>>), 0)
             = <<downloadURL("b")>>)
    /\ [][\A s \in Sessions :
            (pc[s] = "editing" /\ pc'[s] = "editing"
             /\ Len(formData'[s].gallery) < Len(formData[s].gallery))
            => \E i \in 0..(Len(formData[s].gallery) - 1) :
                  formData'[s].gallery = withoutIndex(formData[s].gallery, i)]_vars

\* C24 witness: a gallery of three entries whose first and third hold the same
\* URL: removing index 2 leaves the first two, removing index 0 the last two.
C24_Witness ==
    /\ pc[Solo] = "editing"
    /\ ~uploading[Solo]
    /\ formData[Solo].gallery = <<downloadURL("a"), downloadURL("b"), downloadURL("a")>>
    /\ removeGalleryImage(formData[Solo].gallery, 2)
          = <<downloadURL("a"), downloadURL("b")>>
    /\ removeGalleryImage(formData[Solo].gallery, 0)
          = <<downloadURL("b"), downloadURL("a")>>

\* C25: on the list page, after any fetches, deletes, query changes, sort
\* requests and page changes, the current page is within 1..max(1, totalPages),
\* and whenever the filtered list is not empty the displayed page holds at
\* least one record.
C25_PageInRange ==
    lpc # "closed" =>
        /\ currentPage \in 1..(IF totalPages > 1 THEN totalPages ELSE 1)
        /\ processedArticles # <<>> => currentArticles # <<>>

\* C26: a save of a new record never replaces or modifies a stored document:
\* whatever the slug, a step of the save taken while a document is stored
\* under the form's slug leaves the collection as it is and does not complete
\* the save.
C26_NewSaveNeverReplaces ==
    [][\A s \in Sessions :
          (isNew(s) /\ pc[s] \in SaveStages /\ pc'[s] # pc[s]
           /\ exists(articles, formData[s].slug))
          => (articles' = articles /\ pc'[s] # "done")]_vars

\* C27: when the load of an existing record failed, no step of a later save
\* of that session deletes the stored record or puts the editor's empty
\* default in the place of a stored translation.
C27_FailedLoadSaveHarmless ==
    [][\A s \in Sessions :
          (loadFailed[s] /\ pc[s] \in SaveStages /\ pc'[s] # pc[s]
           /\ exists(articles, articleId[s]))
          => /\ exists(articles', articleId[s])
             /\ \A l \in DOMAIN articles[articleId[s]].translations :
                   articles[articleId[s]].translations[l] # EmptyTranslation
                   => articles'[articleId[s]].translations[l] # EmptyTranslation]_vars

\* C28: after a rename whose write at the new key succeeded and whose delete
\* at the old key failed, pressing Save again in the same session completes
\* the rename. The save begins with checkSlugUnique on the form's slug and
\* goes on only if it answers unique: in every such state, with the documents
\* at both keys stored, the check of the repeated save answers unique.
C28_RetryCompletesRename ==
    \A s \in Sessions :
        (/\ pc[s] = "editing"
         /\ renameFailed(s)
         /\ formData[s].slug # articleId[s]
         /\ exists(articles, articleId[s])
         /\ exists(articles, formData[s].slug))
        => checkSlugUnique(articles, formData[s].slug, articleId[s])

sameRecord(s) ==
    /\ pc[s] \in {"editing"} \cup SaveStages
    /\ pc'[s] \in {"editing", "done"} \cup SaveStages

\* C30: a successful rename carries the stored createdAt and status to the
\* document at the new key. The load puts the stored createdAt and status into
\* the form, no step of the session changes them there, and the step that
\* completes the rename of a loaded record leaves a document at the new key
\* that has them.
C30_RenameCarriesCreatedAtAndStatus ==
    [][\A s \in Sessions :
          /\ (pc[s] = "loading" /\ pc'[s] = "editing" /\ ~loadFailed'[s])
             => /\ formData'[s].createdAt = articles[articleId[s]].createdAt
                /\ formData'[s].status = articles[articleId[s]].status
          /\ sameRecord(s)
             => /\ formData'[s].createdAt = formData[s].createdAt
                /\ formData'[s].status = formData[s].status
          /\ (/\ ~loadFailed[s]
              /\ \/ pc[s] = "set" /\ pc'[s] = "delete"
                 \/ pc[s] = "delete" /\ pc'[s] = "done"
              /\ exists(articles', formData[s].slug))
             => /\ articles'[formData[s].slug].createdAt = formData[s].createdAt
                /\ articles'[formData[s].slug].status = formData[s].status]_vars

\* C30 witness: a loaded record was renamed after the clock went on: the
\* document at the new key has the createdAt and the status of the load, the
\* old key is gone.
C30_Witness ==
    /\ pc[Solo] = "done"
    /\ ~loadFailed[Solo]
    /\ calls[Solo] = <<"query", "set", "delete">>
    /\ formData[Solo].slug # articleId[Solo]
    /\ ~exists(articles, articleId[Solo])
    /\ exists(articles, formData[Solo].slug)
    /\ articles[formData[Solo].slug].createdAt = formData[Solo].createdAt
    /\ articles[formData[Solo].slug].status = "published"
    /\ formData[Solo].status = "published"
    /\ formData[Solo].createdAt # NoTime
    /\ articles[formData[Solo].slug].updatedAt > formData[Solo].createdAt

====
